---- MODULE Spec2Model ----
(***************************************************************************)
(* Model of ElevationProfileService (src/src/App.jsx and the earlier copy  *)
(* of the same service in src/unnamed/part_000).                           *)
(*                                                                         *)
(* One getElevationProfile call is followed from its invocation to the     *)
(* settlement of the promise it returns.  Every `await` of the code is a   *)
(* position of pc; the network (fetch responses, the pacing timer) is the  *)
(* environment and answers nondeterministically.                           *)
(*                                                                         *)
(* The App component that calls the service is followed click by click:   *)
(* every `await` of handleMapClick is a position of the click.             *)
(*                                                                         *)
(* Units: coordinates are <<longitude, latitude>> in 1/1000 degree,        *)
(* distances are in centimetres, elevations are JavaScript values (a       *)
(* number or a string of numeric tokens).                                  *)
(***************************************************************************)
EXTENDS Integers, Sequences, FiniteSets, TLC

VARIABLES
  variant,          \* which source file's service runs: "App" or "part_000"
  network,          \* how the network behaves during the current call
  pc,               \* position of the call
  coordinates,      \* argument of getElevationProfile
  sampledCoords,    \* getElevationFromUSGS3DEP: const sampledCoords
  idx,              \* getElevationFromUSGS3DEP: position of the for-of loop (1-based)
  allElevationData, \* getElevationFromUSGS3DEP: const allElevationData
  oeSampledCoords,  \* getElevationFromOpenElevation: const sampledCoords
  elevationData,    \* getElevationProfile: let elevationData
  settled,          \* state of the promise returned by getElevationProfile
  error,            \* message of the error the promise rejected with
  profile,          \* value the promise resolved with
  attempts,         \* history: providers invoked, in order
  failed,           \* history: providers whose attempt threw, in order
  fetchLog,         \* history: network requests issued, in order
  pointLog,         \* history: per loop iteration, the answer the point got
  delayLog,         \* history: loop iterations after which the pacing timer ran
  caughtError,      \* getElevationProfile: the provider error its catch received last
  errorCause,       \* what the error the promise rejected with carries besides its message
  map,              \* App: const [map, setMap]
  loaded,           \* App: the "load" event of the map has registered the click handlers
  elevationProfile, \* App: const [elevationProfile, setElevationProfile]
  selectedStreamFeature, \* App: const [selectedStreamFeature, setSelectedStreamFeature]
  loading,          \* App: const [loading, setLoading]
  uiError,          \* App: const [error, setError]
  showInstructions, \* App: const [showInstructions, setShowInstructions]
  highlighted,      \* the feature of the "highlighted-stream" source of the map
  clicks,           \* per stream click, the position of its handleMapClick
  nextClick,        \* number of the next stream click
  cleared           \* history: clearSelection ran and no stream was clicked since

\* the state of the App component and of its map
uiVars == <<map, loaded, elevationProfile, selectedStreamFeature, loading,
            uiError, showInstructions, highlighted, clicks, nextClick, cleared>>

\* the state of one getElevationProfile call
svcVars == <<variant, network, pc, coordinates, sampledCoords, idx,
             allElevationData, oeSampledCoords, elevationData, settled, error,
             profile, attempts, failed, fetchLog, pointLog, delayLog,
             caughtError, errorCause>>

vars == <<svcVars, uiVars>>

---------------------------------------------------------------------------
(* Bounds of the model *)

\* every argument array of at most MaxLen entries is explored, with every
\* answer of the network to every request
MaxLen == 3

\* long paths have k*maxPoints .. k*maxPoints + MaxLongExtra coordinates,
\* k = 2, 3 (strides 2 and 3)
MaxLongExtra == 3

\* the sampler is applied to every path of 0 .. MaxSampleLen coordinates
MaxSampleLen == 500

\* longest elevation list the statistics are applied to on their own
MaxStatLen == 4

\* number of stream clicks followed in the App component
MaxClicks == 2

\* number of stream clicks whose getElevationProfile call is followed step
\* by step, one after the other
MaxLiveClicks == 1

---------------------------------------------------------------------------
(* Values *)

Max(a, b) == IF a >= b THEN a ELSE b
Abs(a) == IF a < 0 THEN 0 - a ELSE a
Range(s) == {s[k] : k \in DOMAIN s}
Last(s) == s[Len(s)]

\* a null / undefined entry of the coordinate array
Null == <<>>

\* JavaScript values of a response payload
Undef == [t |-> "undefined", v |-> 0]
Num(n) == [t |-> "number", v |-> n]
\* a string of space-delimited numeric tokens
Str(toks) == [t |-> "string", tokens |-> toks]
NaN == [t |-> "NaN", v |-> 0]
Truthy(x) ==
  \/ x.t = "number" /\ x.v # 0
  \/ x.t = "string" /\ x.tokens # <<>>

\* the conversion the operators -, <, > and Math.min / Math.max apply: a
\* string is a number only when it is one numeric token
ToNumber(x) ==
  CASE x.t = "number" -> x
    [] x.t = "string" -> (IF Len(x.tokens) = 1 THEN Num(x.tokens[1]) ELSE NaN)
    [] OTHER -> NaN

\* parseFloat(value.split(' ')[0]) || 0
ParseFirstToken(x) == IF x.tokens # <<>> THEN Num(x.tokens[1]) ELSE Num(0)

\* the argument of getElevationProfile: null/undefined, or an array
NoArg == [isNull |-> TRUE, arr |-> <<>>]
Arr(s) == [isNull |-> FALSE, arr |-> s]

Lng == 0 - 110000
ShortCoords == {<<Lng, 41000>>, <<Lng, 41002>>}

\* a path along the meridian whose coordinates are pairwise different
PathCoord(i) == <<Lng, 41000 + i>>
LongPath(n) == [k \in 1..n |-> PathCoord(k - 1)]

SeqsUpTo(S, n) == UNION {[1..k -> S] : k \in 0..n}

\* the elevation of the terrain at a coordinate
Terrain(c) == 100 + ((c[2] * 7) % 13) * 10

---------------------------------------------------------------------------
(* haversineDistance, calculateCumulativeDistances *)

\* R * pi / 180 / 1000 metres = 111.19 m per 1/1000 degree, in centimetres
CmPerMilliDeg == 11119

\* On one meridian deltaLng = 0, a = sin^2(deltaLat/2), c = |deltaLat| (rad)
\* and the result is R * |deltaLat|.
haversineDistance(coord1, coord2) == CmPerMilliDeg * Abs(coord2[2] - coord1[2])

RECURSIVE SegmentSum(_, _, _)
\* sum of the segment distances ending at positions lo..hi
SegmentSum(coords, lo, hi) ==
  IF lo > hi THEN 0
  ELSE IF lo = hi THEN haversineDistance(coords[lo - 1], coords[lo])
  ELSE LET mid == (lo + hi) \div 2
       IN SegmentSum(coords, lo, mid) + SegmentSum(coords, mid + 1, hi)

\* each entry is the distance of its own segment, not the running total
calculateCumulativeDistances_m(coords) ==
  [k \in 1..Max(1, Len(coords)) |-> SegmentSum(coords, Max(2, k), k)]

\* distances = [0]; for i = 1 .. length-1: totalDistance += segment; push
calculateCumulativeDistances(coords) ==
  [k \in 1..Max(1, Len(coords)) |-> SegmentSum(coords, 2, k)]

\* coord[1] of a null/undefined entry raises a TypeError
HasNull(coords) == \E k \in DOMAIN coords : coords[k] = Null

---------------------------------------------------------------------------
(* The sampler of each provider *)

RECURSIVE FilterByIndex(_, _, _, _)
\* coordinates.filter((_, index) => index % step === 0), positions lo..hi
FilterByIndex(coords, step, lo, hi) ==
  IF lo > hi THEN <<>>
  ELSE IF lo = hi
       THEN (IF (lo - 1) % step = 0 THEN <<coords[lo]>> ELSE <<>>)
       ELSE LET mid == (lo + hi) \div 2
            IN FilterByIndex(coords, step, lo, mid)
                 \o FilterByIndex(coords, step, mid + 1, hi)

maxPoints == 50

\* the limit of 30 points of the earlier version
maxPointsOE_m == maxPoints - 20
maxPointsOE == 50

\* the last coordinate is always kept
SampleUSGS3DEP_last(coords) ==
  LET step == Max(1, Len(coords) \div maxPoints)
      kept == FilterByIndex(coords, step, 1, Len(coords))
  IN IF Len(coords) > 0 /\ (Len(coords) - 1) % step # 0
     THEN Append(kept, coords[Len(coords)])
     ELSE kept

\* the stride rounded up instead of down
SampleUSGS3DEP_m(coords) ==
  LET step == Max(1, (Len(coords) + maxPoints - 1) \div maxPoints)
  IN FilterByIndex(coords, step, 1, Len(coords))

SampleUSGS3DEP(coords) ==
  LET step == Max(1, Len(coords) \div maxPoints)
  IN FilterByIndex(coords, step, 1, Len(coords))

\* the stride grows with the path only up to 2
SampleOpenElevation_m(coords) ==
  LET step == IF Len(coords) \div maxPointsOE >= 2 THEN 2
              ELSE Max(1, Len(coords) \div maxPointsOE)
  IN FilterByIndex(coords, step, 1, Len(coords))

SampleOpenElevation(coords) ==
  LET step == Max(1, Len(coords) \div maxPointsOE)
  IN FilterByIndex(coords, step, 1, Len(coords))

---------------------------------------------------------------------------
(* Statistics *)

\* elevations[a] - elevations[b]: NaN when an operand is not a number
Diff(a, b) ==
  IF ToNumber(a).t = "number" /\ ToNumber(b).t = "number"
  THEN Num(ToNumber(a).v - ToNumber(b).v)
  ELSE NaN

\* Math.min(...s), Math.max(...s): NaN when an argument is not a number
MinOf(s) ==
  IF \E k \in DOMAIN s : ToNumber(s[k]).t # "number" THEN NaN
  ELSE LET n == {ToNumber(s[k]).v : k \in DOMAIN s}
       IN Num(CHOOSE m \in n : \A e \in n : m <= e)
MaxOf(s) ==
  IF \E k \in DOMAIN s : ToNumber(s[k]).t # "number" THEN NaN
  ELSE LET n == {ToNumber(s[k]).v : k \in DOMAIN s}
       IN Num(CHOOSE m \in n : \A e \in n : m >= e)

RECURSIVE GainSum(_, _, _)
GainSum(elevations, lo, hi) ==
  IF lo > hi THEN 0
  ELSE IF lo = hi
       THEN LET diff == Diff(elevations[lo], elevations[lo - 1])
            IN IF diff.t = "number" /\ diff.v > 0 THEN diff.v ELSE 0
       ELSE LET mid == (lo + hi) \div 2
            IN GainSum(elevations, lo, mid) + GainSum(elevations, mid + 1, hi)

RECURSIVE LossSum(_, _, _)
LossSum(elevations, lo, hi) ==
  IF lo > hi THEN 0
  ELSE IF lo = hi
       THEN LET diff == Diff(elevations[lo], elevations[lo - 1])
            IN IF diff.t = "number" /\ diff.v < 0 THEN Abs(diff.v) ELSE 0
       ELSE LET mid == (lo + hi) \div 2
            IN LossSum(elevations, lo, mid) + LossSum(elevations, mid + 1, hi)

\* every difference is counted, descents by their absolute value
calculateElevationGain_m(elevations) ==
  GainSum(elevations, 2, Len(elevations)) + LossSum(elevations, 2, Len(elevations))

calculateElevationGain(elevations) == GainSum(elevations, 2, Len(elevations))
calculateElevationLoss(elevations) == LossSum(elevations, 2, Len(elevations))

\* the object returned at the end of getElevationProfile
BuildProfile(data) ==
  LET elevations == [k \in 1..Len(data) |-> data[k].elevation]
      totalDistance == data[Len(data)].distance
  IN [points |-> data,
      statistics |->
        [totalDistanceMeters |-> totalDistance,
         minElevation |-> MinOf(elevations),
         maxElevation |-> MaxOf(elevations),
         elevationGain |-> calculateElevationGain(elevations),
         elevationLoss |-> calculateElevationLoss(elevations),
         numberOfPoints |-> Len(data)]]

NoProfile == [none |-> TRUE]

---------------------------------------------------------------------------
(* The network *)

\* answers to one identify request of the USGS 3DEP ImageServer
UsgsReject == [fetch |-> "rejected"]
UsgsHttp(s) == [fetch |-> "resolved", ok |-> FALSE, status |-> s]
UsgsJson(d) == [fetch |-> "resolved", ok |-> TRUE, status |-> 200, data |-> d]

\* payload: data.error, data.value, data.name and the Pixel_Value of each
\* feature of data.catalogItems.features
Payload(e, v, n, c) == [error |-> e, value |-> v, name |-> n, catalogItems |-> c]
ValuePayload(v) == Payload(FALSE, Num(v), "", <<>>)

UsgsPayloads ==
  { Payload(TRUE, Undef, "", <<>>),
    ValuePayload(100),
    Payload(FALSE, Undef, "", <<Num(120)>>),
    Payload(FALSE, Undef, "", <<>>),
    Payload(FALSE, Str(<<12, 34>>), "Pixel", <<>>) }

UsgsResponses == {UsgsReject, UsgsHttp(500)} \cup {UsgsJson(d) : d \in UsgsPayloads}

\* answers to the one lookup request of Open Elevation
OpenReject == [fetch |-> "rejected"]
OpenHttp(s) == [fetch |-> "resolved", ok |-> FALSE, status |-> s]
OpenJson(has, r) ==
  [fetch |-> "resolved", ok |-> TRUE, status |-> 200,
   data |-> [hasResults |-> has, results |-> r]]

OpenElevs == {[elevation |-> Num(100)], [elevation |-> Num(150)]}

TerrainResults(locations, k) ==
  [j \in 1..k |->
     LET loc == locations[IF j <= Len(locations) THEN j ELSE Len(locations)]
     IN [elevation |-> Num(Terrain(<<loc.longitude, loc.latitude>>))]]

\* how the network may behave during a call: on a short path every request
\* gets any answer; on a long path the network is either up (every request
\* is answered from the terrain) or down (every request fails)
NetworksFor(arg) ==
  IF arg.isNull \/ Len(arg.arr) <= MaxLen THEN {"any"} ELSE {"terrain", "down"}

UsgsAnswers(coord) ==
  CASE network = "any" -> UsgsResponses
    [] network = "terrain" -> {UsgsJson(ValuePayload(Terrain(coord)))}
    [] network = "down" -> {UsgsHttp(500)}

OpenAnswers(locations) ==
  CASE network = "any" ->
         {OpenReject, OpenHttp(500), OpenJson(FALSE, <<>>)}
           \cup {OpenJson(TRUE, r) : r \in SeqsUpTo(OpenElevs, Len(locations) + 1)}
    [] network = "terrain" ->
         {OpenJson(TRUE, TerrainResults(locations, k)) :
            k \in (Len(locations) - 1)..(Len(locations) + 1)}
    [] network = "down" -> {OpenReject, OpenHttp(500)}

---------------------------------------------------------------------------
(* getSingleElevationUSGS3DEP, after its fetch has settled *)

Thrown == [threw |-> TRUE, elevation |-> Num(0)]
Returned(e) == [threw |-> FALSE, elevation |-> e]

getSingleElevationUSGS3DEP(resp) ==
  IF resp.fetch = "rejected" THEN Thrown
  ELSE IF ~resp.ok THEN Thrown
  ELSE LET data == resp.data IN
    IF data.error THEN Thrown
    ELSE IF data.value.t # "undefined" THEN Returned(data.value)
    ELSE IF Len(data.catalogItems) > 0
         THEN (IF data.catalogItems[1].t # "undefined"
               THEN Returned(data.catalogItems[1])
               ELSE Returned(Num(0)))
    ELSE IF data.name = "Pixel" /\ Truthy(data.value)
         THEN (IF data.value.t = "string"
               THEN Returned(ParseFirstToken(data.value))
               ELSE Returned(data.value))
    ELSE Returned(Num(0))

---------------------------------------------------------------------------
(* The ElevationSample lists built by the two providers *)

\* sampledCoords.map((coord, index) => ({...})) of getElevationFromUSGS3DEP
UsgsElevationData(coords, elevations) ==
  LET distances == calculateCumulativeDistances(coords)
  IN [k \in 1..Len(coords) |->
        [longitude |-> coords[k][1],
         latitude |-> coords[k][2],
         elevation |-> elevations[k],
         distance |-> distances[k]]]

\* sampledCoords.map((coord) => ({latitude, longitude}))
Locations(coords) ==
  [k \in 1..Len(coords) |-> [latitude |-> coords[k][2], longitude |-> coords[k][1]]]

NoData == [threw |-> TRUE, data |-> <<>>]

\* getElevationFromOpenElevation, after its fetch has settled
OpenElevationData(coords, resp) ==
  IF resp.fetch = "rejected" THEN NoData
  ELSE IF ~resp.ok THEN NoData
  ELSE IF ~resp.data.hasResults THEN NoData
  ELSE IF Len(resp.data.results) > Len(coords) THEN NoData
  ELSE LET distances == calculateCumulativeDistances(coords)
           results == resp.data.results
       IN [threw |-> FALSE,
           data |-> [k \in 1..Len(results) |->
                       [longitude |-> coords[k][1],
                        latitude |-> coords[k][2],
                        elevation |-> results[k].elevation,
                        distance |-> distances[k]]]]

---------------------------------------------------------------------------
(* Error messages *)

ErrInvalid == "Invalid coordinates: need at least 2 points"
ErrAllSources == "Failed to get elevation data from all sources. Please try again."
ErrElevation == "Failed to get elevation data. Please try again."
ErrTypeError == "TypeError"

\* the errors a provider throws; new Error(message) carries nothing but its
\* message
NoCause == [kind |-> "none"]
TypeError == [kind |-> "TypeError"]
FetchFailed == [kind |-> "FetchFailed"]
HttpError(s) == [kind |-> "HttpError", status |-> s]
NewError(message) == [message |-> message, cause |-> NoCause]

\* the error getElevationFromOpenElevation rethrows for an answer it cannot use
OpenError(resp) ==
  IF resp.fetch = "rejected" THEN FetchFailed
  ELSE IF ~resp.ok THEN HttpError(resp.status)
  ELSE TypeError

\* the error of the provider rethrown as it is
AllFailedError_m == ErrTypeError

\* the error getElevationProfile throws when its last provider has thrown
AllFailedError == IF variant = "App" THEN ErrAllSources ELSE ErrElevation

---------------------------------------------------------------------------
(* Actions *)

LongLens ==
  UNION {(k * maxPoints)..(k * maxPoints + MaxLongExtra) : k \in {2, 3}}

CallInputs ==
  {NoArg}
    \cup {Arr(s) : s \in SeqsUpTo(ShortCoords \cup {Null}, MaxLen)}
    \cup {Arr(LongPath(n)) : n \in LongLens}

\* a stream click that has not happened yet
JsNull == [isNull |-> TRUE]
NoClick == [pc |-> "none", result |-> JsNull, outcome |-> "none"]

\* the locals of a call that has not run yet, empty histories, and the App
\* component before it is mounted
Fresh ==
  /\ sampledCoords = <<>>
  /\ idx = 0
  /\ allElevationData = <<>>
  /\ oeSampledCoords = <<>>
  /\ elevationData = <<>>
  /\ settled = "none"
  /\ error = ""
  /\ profile = NoProfile
  /\ attempts = <<>>
  /\ failed = <<>>
  /\ fetchLog = <<>>
  /\ pointLog = <<>>
  /\ delayLog = <<>>
  /\ caughtError = NoCause
  /\ errorCause = NoCause
  /\ map = JsNull
  /\ loaded = FALSE
  /\ elevationProfile = JsNull
  /\ selectedStreamFeature = JsNull
  /\ loading = FALSE
  /\ uiError = JsNull
  /\ showInstructions = TRUE
  /\ highlighted = JsNull
  /\ clicks = [c \in 1..MaxClicks |-> NoClick]
  /\ nextClick = 1
  /\ cleared = FALSE

Init ==
  /\ variant \in {"App", "part_000"}
  /\ pc = "idle"
  /\ network = "any"
  /\ coordinates = NoArg
  /\ Fresh

\* only the empty array is refused
InvalidInput_m(arg) == arg.isNull \/ Len(arg.arr) < 1

InvalidInput(arg) == arg.isNull \/ Len(arg.arr) < 2

\* getElevationProfile is called with less than 2 coordinates
CallInvalid(arg) ==
  /\ pc = "idle"
  /\ InvalidInput(arg)
  /\ coordinates' = arg
  /\ network' \in NetworksFor(arg)
  /\ pc' = "done"
  /\ settled' = "rejected"
  /\ error' = ErrInvalid
  /\ UNCHANGED <<uiVars, caughtError, errorCause, variant, sampledCoords, idx, allElevationData, oeSampledCoords,
                 elevationData, profile, attempts, failed, fetchLog, pointLog,
                 delayLog>>

\* App.jsx: getElevationProfile enters getElevationFromUSGS3DEP, which samples
\* the path and reaches the head of its loop
CallUSGS(arg) ==
  /\ pc = "idle"
  /\ variant = "App"
  /\ ~InvalidInput(arg)
  /\ coordinates' = arg
  /\ network' \in NetworksFor(arg)
  /\ attempts' = Append(attempts, "usgs")
  /\ sampledCoords' = SampleUSGS3DEP(arg.arr)
  /\ idx' = 1
  /\ pc' = "usgs_loop"
  /\ UNCHANGED <<uiVars, caughtError, errorCause, variant, allElevationData, oeSampledCoords, elevationData,
                 settled, error, profile, failed, fetchLog, pointLog, delayLog>>

\* part_000: getElevationProfile goes to Open Elevation directly
CallOpen(arg) ==
  /\ pc = "idle"
  /\ variant = "part_000"
  /\ ~InvalidInput(arg)
  /\ coordinates' = arg
  /\ network' \in NetworksFor(arg)
  /\ pc' = "open_start"
  /\ UNCHANGED <<uiVars, caughtError, errorCause, variant, sampledCoords, idx, allElevationData, oeSampledCoords,
                 elevationData, settled, error, profile, attempts, failed,
                 fetchLog, pointLog, delayLog>>

\* the loop takes the next sampled coordinate and requests its elevation
UsgsPointFetch ==
  /\ pc = "usgs_loop"
  /\ idx <= Len(sampledCoords)
  /\ sampledCoords[idx] # Null
  /\ fetchLog' = Append(fetchLog, [provider |-> "usgs", index |-> idx,
                                   coord |-> sampledCoords[idx]])
  /\ pc' = "usgs_fetch"
  /\ UNCHANGED <<uiVars, caughtError, errorCause, variant, network, coordinates, sampledCoords, idx,
                 allElevationData, oeSampledCoords, elevationData, settled,
                 error, profile, attempts, failed, pointLog, delayLog>>

\* the next sampled coordinate is null: building the request throws, the
\* catch of the loop records 0
UsgsPointThrows ==
  /\ pc = "usgs_loop"
  /\ idx <= Len(sampledCoords)
  /\ sampledCoords[idx] = Null
  /\ allElevationData' = Append(allElevationData, Num(0))
  /\ pointLog' = Append(pointLog, [index |-> idx, fetched |-> FALSE,
                                   resp |-> UsgsReject])
  /\ idx' = idx + 1
  /\ UNCHANGED <<uiVars, caughtError, errorCause, variant, network, pc, coordinates, sampledCoords,
                 oeSampledCoords, elevationData, settled, error, profile,
                 attempts, failed, fetchLog, delayLog>>

\* a failed point is skipped and nothing is recorded for it
UsgsRespond_m ==
  /\ pc = "usgs_fetch"
  /\ \E resp \in UsgsAnswers(sampledCoords[idx]) :
       LET r == getSingleElevationUSGS3DEP(resp) IN
         /\ IF r.threw
            THEN /\ pc' = "usgs_loop"
                 /\ idx' = idx + 1
                 /\ allElevationData' = allElevationData
            ELSE /\ pc' = "usgs_delay"
                 /\ idx' = idx
                 /\ allElevationData' = Append(allElevationData, r.elevation)
         /\ pointLog' = Append(pointLog, [index |-> idx, fetched |-> TRUE,
                                          resp |-> resp])
  /\ UNCHANGED <<uiVars, caughtError, errorCause, variant, network, coordinates, sampledCoords, oeSampledCoords,
                 elevationData, settled, error, profile, attempts, failed,
                 fetchLog, delayLog>>

\* the request of the current point settles
UsgsRespond ==
  /\ pc = "usgs_fetch"
  /\ \E resp \in UsgsAnswers(sampledCoords[idx]) :
       LET r == getSingleElevationUSGS3DEP(resp) IN
         /\ allElevationData' = Append(allElevationData, r.elevation)
         /\ IF r.threw
            THEN pc' = "usgs_loop" /\ idx' = idx + 1
            ELSE pc' = "usgs_delay" /\ idx' = idx
         /\ pointLog' = Append(pointLog, [index |-> idx, fetched |-> TRUE,
                                          resp |-> resp])
  /\ UNCHANGED <<uiVars, caughtError, errorCause, variant, network, coordinates, sampledCoords, oeSampledCoords,
                 elevationData, settled, error, profile, attempts, failed,
                 fetchLog, delayLog>>

\* the 100 ms timer after a successful point fires
UsgsDelay ==
  /\ pc = "usgs_delay"
  /\ delayLog' = Append(delayLog, idx)
  /\ idx' = idx + 1
  /\ pc' = "usgs_loop"
  /\ UNCHANGED <<uiVars, caughtError, errorCause, variant, network, coordinates, sampledCoords, allElevationData,
                 oeSampledCoords, elevationData, settled, error, profile,
                 attempts, failed, fetchLog, pointLog>>

\* the loop is over and the ElevationSample list is built
UsgsReturns ==
  /\ pc = "usgs_loop"
  /\ idx > Len(sampledCoords)
  /\ ~HasNull(sampledCoords)
  /\ elevationData' = UsgsElevationData(sampledCoords, allElevationData)
  /\ pc' = "finish"
  /\ UNCHANGED <<uiVars, caughtError, errorCause, variant, network, coordinates, sampledCoords, idx,
                 allElevationData, oeSampledCoords, settled, error, profile,
                 attempts, failed, fetchLog, pointLog, delayLog>>

\* the failed primary is tried again instead of the fallback
UsgsThrows_m ==
  /\ pc = "usgs_loop"
  /\ idx > Len(sampledCoords)
  /\ HasNull(sampledCoords)
  /\ failed' = Append(failed, "usgs")
  /\ attempts' = Append(attempts, "usgs")
  /\ allElevationData' = <<>>
  /\ idx' = 1
  /\ caughtError' = TypeError
  /\ UNCHANGED <<uiVars, errorCause, variant, network, pc, coordinates, sampledCoords,
                 oeSampledCoords, elevationData, settled, error, profile,
                 fetchLog, pointLog, delayLog>>

\* the loop is over and the distances of a path with a null entry throw:
\* getElevationFromUSGS3DEP rethrows, getElevationProfile falls back
UsgsThrows ==
  /\ pc = "usgs_loop"
  /\ idx > Len(sampledCoords)
  /\ HasNull(sampledCoords)
  /\ failed' = Append(failed, "usgs")
  /\ pc' = "open_start"
  /\ caughtError' = TypeError
  /\ UNCHANGED <<uiVars, errorCause, variant, network, coordinates, sampledCoords, idx,
                 allElevationData, oeSampledCoords, elevationData, settled,
                 error, profile, attempts, fetchLog, pointLog, delayLog>>

\* getElevationFromOpenElevation samples the path and posts the locations
OpenStartFetch ==
  /\ pc = "open_start"
  /\ LET sampled == SampleOpenElevation(coordinates.arr) IN
       /\ ~HasNull(sampled)
       /\ oeSampledCoords' = sampled
       /\ fetchLog' = Append(fetchLog, [provider |-> "open",
                                        locations |-> Locations(sampled)])
  /\ attempts' = Append(attempts, "open")
  /\ pc' = "open_fetch"
  /\ UNCHANGED <<uiVars, caughtError, errorCause, variant, network, coordinates, sampledCoords, idx,
                 allElevationData, elevationData, settled, error, profile,
                 failed, pointLog, delayLog>>

\* a null entry makes the locations throw: the last provider has failed
OpenStartThrows ==
  /\ pc = "open_start"
  /\ LET sampled == SampleOpenElevation(coordinates.arr) IN
       /\ HasNull(sampled)
       /\ oeSampledCoords' = sampled
  /\ attempts' = Append(attempts, "open")
  /\ failed' = Append(failed, "open")
  /\ pc' = "done"
  /\ settled' = "rejected"
  /\ error' = NewError(AllFailedError).message
  /\ caughtError' = TypeError
  /\ errorCause' = NewError(AllFailedError).cause
  /\ UNCHANGED <<uiVars, variant, network, coordinates, sampledCoords, idx,
                 allElevationData, elevationData, profile, fetchLog, pointLog,
                 delayLog>>

\* the lookup request settles and the ElevationSample list is built
OpenReturns ==
  /\ pc = "open_fetch"
  /\ \E resp \in OpenAnswers(Locations(oeSampledCoords)) :
       LET r == OpenElevationData(oeSampledCoords, resp) IN
         /\ ~r.threw
         /\ elevationData' = r.data
         /\ fetchLog' = Append(fetchLog, [provider |-> "open", answer |-> resp])
  /\ pc' = "finish"
  /\ UNCHANGED <<uiVars, caughtError, errorCause, variant, network, coordinates, sampledCoords, idx,
                 allElevationData, oeSampledCoords, settled, error, profile,
                 attempts, failed, pointLog, delayLog>>

\* the lookup request settles and the provider throws: the last provider
\* has failed
OpenThrows ==
  /\ pc = "open_fetch"
  /\ \E resp \in OpenAnswers(Locations(oeSampledCoords)) :
       /\ OpenElevationData(oeSampledCoords, resp).threw
       /\ fetchLog' = Append(fetchLog, [provider |-> "open", answer |-> resp])
       /\ caughtError' = OpenError(resp)
  /\ failed' = Append(failed, "open")
  /\ pc' = "done"
  /\ settled' = "rejected"
  /\ error' = NewError(AllFailedError).message
  /\ errorCause' = NewError(AllFailedError).cause
  /\ UNCHANGED <<uiVars, variant, network, coordinates, sampledCoords, idx,
                 allElevationData, oeSampledCoords, elevationData, profile,
                 attempts, pointLog, delayLog>>

\* the statistics are computed and the profile is returned
FinishReturns ==
  /\ pc = "finish"
  /\ Len(elevationData) > 0
  /\ profile' = BuildProfile(elevationData)
  /\ settled' = "resolved"
  /\ pc' = "done"
  /\ UNCHANGED <<uiVars, caughtError, errorCause, variant, network, coordinates, sampledCoords, idx,
                 allElevationData, oeSampledCoords, elevationData, error,
                 attempts, failed, fetchLog, pointLog, delayLog>>

\* elevationData[elevationData.length - 1] of an empty list is undefined
FinishThrows ==
  /\ pc = "finish"
  /\ Len(elevationData) = 0
  /\ settled' = "rejected"
  /\ error' = ErrTypeError
  /\ pc' = "done"
  /\ UNCHANGED <<uiVars, caughtError, errorCause, variant, network, coordinates, sampledCoords, idx,
                 allElevationData, oeSampledCoords, elevationData, profile,
                 attempts, failed, fetchLog, pointLog, delayLog>>

\* the caller has its answer; the service holds no state between calls
Return ==
  /\ pc = "done"
  /\ network' = "any"
  /\ pc' = "idle"
  /\ coordinates' = NoArg
  /\ sampledCoords' = <<>>
  /\ idx' = 0
  /\ allElevationData' = <<>>
  /\ oeSampledCoords' = <<>>
  /\ elevationData' = <<>>
  /\ settled' = "none"
  /\ error' = ""
  /\ profile' = NoProfile
  /\ attempts' = <<>>
  /\ failed' = <<>>
  /\ fetchLog' = <<>>
  /\ pointLog' = <<>>
  /\ delayLog' = <<>>
  /\ caughtError' = NoCause
  /\ errorCause' = NoCause
  /\ UNCHANGED <<uiVars, variant>>

Next ==
  \/ \E arg \in CallInputs : CallInvalid(arg)
  \/ \E arg \in CallInputs : CallUSGS(arg)
  \/ \E arg \in CallInputs : CallOpen(arg)
  \/ UsgsPointFetch
  \/ UsgsPointThrows
  \/ UsgsRespond
  \/ UsgsDelay
  \/ UsgsReturns
  \/ UsgsThrows
  \/ OpenStartFetch
  \/ OpenStartThrows
  \/ OpenReturns
  \/ OpenThrows
  \/ FinishReturns
  \/ FinishThrows
  \/ Return

Spec == Init /\ [][Next]_vars

---------------------------------------------------------------------------
(* The samplers applied to paths of every length *)

SampleInputs ==
  {Arr(LongPath(n)) : n \in 0..MaxSampleLen}
    \cup {Arr(s) : s \in SeqsUpTo(ShortCoords \cup {Null}, MaxLen)}

InitSample ==
  /\ variant = "App"
  /\ pc = "sample"
  /\ network = "any"
  /\ coordinates \in SampleInputs
  /\ Fresh

\* lines 76-80 of getElevationFromUSGS3DEP
ApplySampleUSGS3DEP ==
  /\ pc = "sample"
  /\ sampledCoords' = SampleUSGS3DEP(coordinates.arr)
  /\ pc' = "sample_oe"
  /\ UNCHANGED <<uiVars, caughtError, errorCause, variant, network, coordinates, idx, allElevationData,
                 oeSampledCoords, elevationData, settled, error, profile,
                 attempts, failed, fetchLog, pointLog, delayLog>>

\* lines 187-191 of getElevationFromOpenElevation
ApplySampleOpenElevation ==
  /\ pc = "sample_oe"
  /\ oeSampledCoords' = SampleOpenElevation(coordinates.arr)
  /\ pc' = "sampled"
  /\ UNCHANGED <<uiVars, caughtError, errorCause, variant, network, coordinates, sampledCoords, idx,
                 allElevationData, elevationData, settled, error, profile,
                 attempts, failed, fetchLog, pointLog, delayLog>>

NextSample ==
  \/ ApplySampleUSGS3DEP
  \/ ApplySampleOpenElevation

SpecSample == InitSample /\ [][NextSample]_vars

---------------------------------------------------------------------------
(* The statistics applied to elevation lists of every shape *)

StatElevs == {Num(100), Num(120), Num(150)}

InitStats ==
  /\ variant = "App"
  /\ pc = "stats"
  /\ coordinates = NoArg
  /\ network = "any"
  /\ allElevationData \in SeqsUpTo(StatElevs, MaxStatLen) \ {<<>>}
  /\ sampledCoords = LongPath(Len(allElevationData))
  /\ idx = 0
  /\ oeSampledCoords = <<>>
  /\ elevationData = <<>>
  /\ settled = "none"
  /\ error = ""
  /\ profile = NoProfile
  /\ attempts = <<>>
  /\ failed = <<>>
  /\ fetchLog = <<>>
  /\ pointLog = <<>>
  /\ delayLog = <<>>
  /\ caughtError = NoCause
  /\ errorCause = NoCause
  /\ map = JsNull
  /\ loaded = FALSE
  /\ elevationProfile = JsNull
  /\ selectedStreamFeature = JsNull
  /\ loading = FALSE
  /\ uiError = JsNull
  /\ showInstructions = TRUE
  /\ highlighted = JsNull
  /\ clicks = [c \in 1..MaxClicks |-> NoClick]
  /\ nextClick = 1
  /\ cleared = FALSE

\* lines 103-111 and 263-285: the ElevationSample list and its statistics
ApplyStatistics ==
  /\ pc = "stats"
  /\ elevationData' = UsgsElevationData(sampledCoords, allElevationData)
  /\ profile' = BuildProfile(UsgsElevationData(sampledCoords, allElevationData))
  /\ pc' = "stats_done"
  /\ UNCHANGED <<uiVars, caughtError, errorCause, variant, network, coordinates, sampledCoords, idx,
                 allElevationData, oeSampledCoords, settled, error, attempts,
                 failed, fetchLog, pointLog, delayLog>>

NextStats == ApplyStatistics

SpecStats == InitStats /\ [][NextStats]_vars

---------------------------------------------------------------------------
(* The App component: stream clicks, deselection and what is displayed *)

\* the map created by the effect of the component
MapInstance == [isNull |-> FALSE, container |-> "map"]

\* the stream lines of the map and the coordinates of their geometry
Streams == {"upper", "lower", "stub", "broken"}
StreamCoordinates(s) ==
  CASE s = "upper" -> <<<<Lng, 41000>>, <<Lng, 41002>>>>
    [] s = "lower" -> <<<<Lng, 41002>>, <<Lng, 41000>>>>
    [] s = "stub" -> <<<<Lng, 41000>>>>
    [] s = "broken" -> <<<<Lng, 41000>>, Null>>

\* queryRenderedFeatures builds a new feature object at each call
Feature(c, s) == [isNull |-> FALSE, id |-> c, stream |-> s]

\* what querySelectedLine returns for click c: null, or the line clicked
querySelectedLine(c, s) ==
  { JsNull,
    [isNull |-> FALSE,
     coordinates |-> Arr(StreamCoordinates(s)),
     feature |-> Feature(c, s)] }

ErrNoStream == "No trout stream found. Please click on a blue stream line."
ErrRetry == "Failed to get elevation data. Please try again."
Message(m) == [isNull |-> FALSE, message |-> m]

Rejected(e) == [settled |-> "rejected", error |-> e]
Resolved(p) == [settled |-> "resolved", profile |-> p]

\* the lists allElevationData the per-point loop can end with, for the first
\* k sampled coordinates
RECURSIVE ElevationLists(_, _)
ElevationLists(coords, k) ==
  IF k = 0 THEN {<<>>}
  ELSE {Append(e, getSingleElevationUSGS3DEP(resp).elevation) :
          e \in ElevationLists(coords, k - 1), resp \in UsgsAnswers(coords[k])}

\* the ways getElevationFromOpenElevation and the statistics after it can end
OpenElevationOutcomes(arg) ==
  LET sampled == SampleOpenElevation(arg.arr) IN
    IF HasNull(sampled) THEN {Rejected(AllFailedError)}
    ELSE {LET r == OpenElevationData(sampled, resp) IN
            IF r.threw THEN Rejected(AllFailedError)
            ELSE IF Len(r.data) = 0 THEN Rejected(ErrTypeError)
            ELSE Resolved(BuildProfile(r.data)) :
          resp \in OpenAnswers(Locations(sampled))}

\* the ways the promise of one getElevationProfile call can settle
getElevationProfile(arg) ==
  IF InvalidInput(arg) THEN {Rejected(ErrInvalid)}
  ELSE IF variant = "App"
       THEN LET sampled == SampleUSGS3DEP(arg.arr) IN
              IF HasNull(sampled) THEN OpenElevationOutcomes(arg)
              ELSE {Resolved(BuildProfile(UsgsElevationData(sampled, e))) :
                      e \in ElevationLists(sampled, Len(sampled))}
       ELSE OpenElevationOutcomes(arg)

\* what the ElevationChart component returns
ElevationChart(p) ==
  IF p.isNull THEN "null"
  ELSE IF Len(p.value.points) = 0 THEN "null"
  ELSE "chart"

\* {elevationProfile && (... <ElevationChart profile={elevationProfile} />)}
RenderedChart ==
  IF elevationProfile.isNull THEN "null" ELSE ElevationChart(elevationProfile)

InitUI ==
  /\ variant \in {"App", "part_000"}
  /\ pc = "ui"
  /\ network \in {"terrain", "down"}
  /\ coordinates = NoArg
  /\ Fresh

\* the effect of the component creates the map and stores it in the state
UseEffect ==
  /\ map.isNull
  /\ map' = MapInstance
  /\ UNCHANGED <<svcVars, loaded, elevationProfile, selectedStreamFeature,
                 loading, uiError, showInstructions, highlighted, clicks,
                 nextClick, cleared>>

\* the map fires "load": the click handlers are registered
MapLoad ==
  /\ ~map.isNull
  /\ ~loaded
  /\ loaded' = TRUE
  /\ UNCHANGED <<svcVars, map, elevationProfile, selectedStreamFeature,
                 loading, uiError, showInstructions, highlighted, clicks,
                 nextClick, cleared>>

\* the user clicks stream s: handleMapClick runs up to its first await
\* (handleBackgroundClick finds the stream under the click and returns)
StreamClick(s) ==
  /\ loaded
  /\ nextClick <= MaxClicks
  /\ loading' = TRUE
  /\ uiError' = JsNull
  /\ \E r \in querySelectedLine(nextClick, s) :
       clicks' = [clicks EXCEPT ![nextClick] =
                    [pc |-> "query", result |-> r, outcome |-> "none"]]
  /\ nextClick' = nextClick + 1
  /\ cleared' = FALSE
  /\ UNCHANGED <<svcVars, map, loaded, elevationProfile, selectedStreamFeature,
                 showInstructions, highlighted>>

\* the await of querySelectedLine resumes with a line: getElevationProfile
\* is called
QueryReturnsLine(c) ==
  /\ clicks[c].pc = "query"
  /\ ~clicks[c].result.isNull
  /\ clicks' = [clicks EXCEPT ![c].pc = "profile"]
  /\ UNCHANGED <<svcVars, map, loaded, elevationProfile, selectedStreamFeature,
                 loading, uiError, showInstructions, highlighted, nextClick,
                 cleared>>

\* the await of querySelectedLine resumes with null
QueryReturnsNull(c) ==
  /\ clicks[c].pc = "query"
  /\ clicks[c].result.isNull
  /\ uiError' = Message(ErrNoStream)
  /\ loading' = FALSE
  /\ clicks' = [clicks EXCEPT ![c].pc = "done", ![c].outcome = "nostream"]
  /\ UNCHANGED <<svcVars, map, loaded, elevationProfile, selectedStreamFeature,
                 showInstructions, highlighted, nextClick, cleared>>

\* the promise of getElevationProfile resolves: the profile, the feature and
\* the highlight are set
ProfileResolves(c) ==
  /\ clicks[c].pc = "profile"
  /\ \E o \in getElevationProfile(clicks[c].result.coordinates) :
       /\ o.settled = "resolved"
       /\ elevationProfile' = [isNull |-> FALSE, call |-> c, value |-> o.profile]
  /\ selectedStreamFeature' = clicks[c].result.feature
  /\ showInstructions' = FALSE
  /\ highlighted' = clicks[c].result.feature
  /\ loading' = FALSE
  /\ clicks' = [clicks EXCEPT ![c].pc = "done", ![c].outcome = "resolved"]
  /\ UNCHANGED <<svcVars, map, loaded, uiError, nextClick, cleared>>

\* the failure is reported as if no stream had been found
ProfileRejects_m(c) ==
  /\ clicks[c].pc = "profile"
  /\ \E o \in getElevationProfile(clicks[c].result.coordinates) :
       o.settled = "rejected"
  /\ uiError' = Message(ErrNoStream)
  /\ loading' = FALSE
  /\ clicks' = [clicks EXCEPT ![c].pc = "done", ![c].outcome = "rejected"]
  /\ UNCHANGED <<svcVars, map, loaded, elevationProfile, selectedStreamFeature,
                 showInstructions, highlighted, nextClick, cleared>>

\* the promise of getElevationProfile rejects: the catch sets the message
ProfileRejects(c) ==
  /\ clicks[c].pc = "profile"
  /\ \E o \in getElevationProfile(clicks[c].result.coordinates) :
       o.settled = "rejected"
  /\ uiError' = Message(ErrRetry)
  /\ loading' = FALSE
  /\ clicks' = [clicks EXCEPT ![c].pc = "done", ![c].outcome = "rejected"]
  /\ UNCHANGED <<svcVars, map, loaded, elevationProfile, selectedStreamFeature,
                 showInstructions, highlighted, nextClick, cleared>>

\* clearSelection as the closure that sees m as the map of the state
clearSelection(m) ==
  /\ elevationProfile' = JsNull
  /\ selectedStreamFeature' = JsNull
  /\ highlighted' = IF ~m.isNull THEN JsNull ELSE highlighted
  /\ cleared' = TRUE

\* the clear button of the elevation panel: the closure of the last render
ClearButton ==
  /\ ~elevationProfile.isNull
  /\ clearSelection(map)
  /\ UNCHANGED <<svcVars, map, loaded, loading, uiError, showInstructions,
                 clicks, nextClick>>

\* a click on the map away from every stream: handleBackgroundClick calls
\* the clearSelection of the render the effect ran in, where map is null
BackgroundClick ==
  /\ loaded
  /\ clearSelection(JsNull)
  /\ UNCHANGED <<svcVars, map, loaded, loading, uiError, showInstructions,
                 clicks, nextClick>>

\* the close button of the error overlay
DismissError ==
  /\ ~uiError.isNull
  /\ uiError' = JsNull
  /\ UNCHANGED <<svcVars, map, loaded, elevationProfile, selectedStreamFeature,
                 loading, showInstructions, highlighted, clicks, nextClick,
                 cleared>>

NextUI ==
  \/ UseEffect
  \/ MapLoad
  \/ \E s \in Streams : StreamClick(s)
  \/ \E c \in 1..MaxClicks : QueryReturnsLine(c)
  \/ \E c \in 1..MaxClicks : QueryReturnsNull(c)
  \/ \E c \in 1..MaxClicks : ProfileResolves(c)
  \/ \E c \in 1..MaxClicks : ProfileRejects(c)
  \/ ClearButton
  \/ BackgroundClick
  \/ DismissError

SpecUI == InitUI /\ [][NextUI]_vars

---------------------------------------------------------------------------
(* One click at a time, its getElevationProfile call followed step by step *)

\* the handler of click c is between its first await and its end
InFlight(c) == clicks[c].pc \in {"query", "profile"}

\* the handler of click c awaits the promise of getElevationProfile
Awaiting(c) == clicks[c].pc = "profile"

\* the user clicks a stream while no click is being handled
LiveStreamClick(s) ==
  /\ nextClick <= MaxLiveClicks
  /\ pc = "idle"
  /\ \A c \in 1..MaxClicks : ~InFlight(c)
  /\ StreamClick(s)

\* the handler calls getElevationProfile with the coordinates of the line
LiveCallInvalid(c) == Awaiting(c) /\ CallInvalid(clicks[c].result.coordinates)
LiveCallUSGS(c) == Awaiting(c) /\ CallUSGS(clicks[c].result.coordinates)
LiveCallOpen(c) == Awaiting(c) /\ CallOpen(clicks[c].result.coordinates)

\* the await of getElevationProfile resumes with the profile of the call
LiveProfileResolves(c) ==
  /\ Awaiting(c)
  /\ pc = "done"
  /\ settled = "resolved"
  /\ elevationProfile' = [isNull |-> FALSE, call |-> c, value |-> profile]
  /\ selectedStreamFeature' = clicks[c].result.feature
  /\ showInstructions' = FALSE
  /\ highlighted' = clicks[c].result.feature
  /\ loading' = FALSE
  /\ clicks' = [clicks EXCEPT ![c].pc = "done", ![c].outcome = "resolved"]
  /\ UNCHANGED <<svcVars, map, loaded, uiError, nextClick, cleared>>

\* loading is turned off after a profile only, not after a failure
LiveProfileRejects_m(c) ==
  /\ Awaiting(c)
  /\ pc = "done"
  /\ settled = "rejected"
  /\ uiError' = Message(ErrRetry)
  /\ clicks' = [clicks EXCEPT ![c].pc = "done", ![c].outcome = "rejected"]
  /\ UNCHANGED <<svcVars, map, loaded, elevationProfile, selectedStreamFeature,
                 loading, showInstructions, highlighted, nextClick, cleared>>

\* the await of getElevationProfile throws the error of the call
LiveProfileRejects(c) ==
  /\ Awaiting(c)
  /\ pc = "done"
  /\ settled = "rejected"
  /\ uiError' = Message(ErrRetry)
  /\ loading' = FALSE
  /\ clicks' = [clicks EXCEPT ![c].pc = "done", ![c].outcome = "rejected"]
  /\ UNCHANGED <<svcVars, map, loaded, elevationProfile, selectedStreamFeature,
                 showInstructions, highlighted, nextClick, cleared>>

\* the call is over once the handler that awaited it has resumed
LiveReturn ==
  /\ \A c \in 1..MaxClicks : ~Awaiting(c)
  /\ Return

\* the steps of the handlers and of the service: continuations of awaits,
\* network answers and timers
LiveProgress ==
  \/ \E c \in 1..MaxClicks : QueryReturnsLine(c)
  \/ \E c \in 1..MaxClicks : QueryReturnsNull(c)
  \/ \E c \in 1..MaxClicks : LiveCallInvalid(c)
  \/ \E c \in 1..MaxClicks : LiveCallUSGS(c)
  \/ \E c \in 1..MaxClicks : LiveCallOpen(c)
  \/ UsgsPointFetch
  \/ UsgsPointThrows
  \/ UsgsRespond
  \/ UsgsDelay
  \/ UsgsReturns
  \/ UsgsThrows
  \/ OpenStartFetch
  \/ OpenStartThrows
  \/ OpenReturns
  \/ OpenThrows
  \/ FinishReturns
  \/ FinishThrows
  \/ \E c \in 1..MaxClicks : LiveProfileResolves(c)
  \/ \E c \in 1..MaxClicks : LiveProfileRejects(c)
  \/ LiveReturn

NextLive ==
  \/ UseEffect
  \/ MapLoad
  \/ \E s \in Streams : LiveStreamClick(s)
  \/ LiveProgress
  \/ ClearButton
  \/ BackgroundClick
  \/ DismissError

\* every provider request settles, every timer fires and every continuation
\* runs; the user is free to click or not
SpecLive == Init /\ [][NextLive]_vars /\ WF_vars(LiveProgress)

---------------------------------------------------------------------------
(* Properties *)

\* the sampled coordinates of the provider that produced elevationData
ProvidingSample ==
  IF Last(attempts) = "usgs" THEN sampledCoords ELSE oeSampledCoords

\* every iteration of the per-point loop of the finished call has failed
AllPointsFailed ==
  /\ pc = "done"
  /\ attempts # <<>>
  /\ attempts[1] = "usgs"
  /\ Len(pointLog) = Len(sampledCoords)
  /\ \A k \in DOMAIN pointLog : getSingleElevationUSGS3DEP(pointLog[k].resp).threw

\* the answer the batch provider got, if its request has settled
OpenAnswered ==
  /\ fetchLog # <<>>
  /\ Last(fetchLog).provider = "open"
  /\ "answer" \in DOMAIN Last(fetchLog)

\* C1: when every per-point query of the primary provider has failed, the
\* fallback provider has been attempted with the same sampled coordinates
\* and the elevations of a returned profile are the fallback's results.
C1_FallbackAfterAllPointsFail ==
  AllPointsFailed =>
    /\ Len(attempts) = 2
    /\ attempts[2] = "open"
    /\ oeSampledCoords = sampledCoords
    /\ settled = "resolved" =>
         /\ OpenAnswered
         /\ [k \in 1..Len(profile.points) |-> [elevation |-> profile.points[k].elevation]]
              = Last(fetchLog).answer.data.results

\* C2: when every provider the call attempted has thrown, the call is
\* rejected with the all-providers-failed error and returns no profile.
C2_AllProvidersFailed ==
  (pc = "done" /\ attempts # <<>> /\ failed = attempts) =>
    /\ settled = "rejected"
    /\ error = (IF variant = "App" THEN ErrAllSources ELSE ErrElevation)
    /\ profile = NoProfile

C2_Witness ==
  /\ pc = "done"
  /\ variant = "App"
  /\ attempts = <<"usgs", "open">>
  /\ failed = <<"usgs", "open">>
  /\ settled = "rejected"

\* C3: a call with a missing argument or with fewer than 2 coordinates is
\* rejected with the input error at once, and no provider is attempted and
\* no request is issued during the call.
C3_InvalidInputRejected ==
  (pc # "idle" /\ (coordinates.isNull \/ Len(coordinates.arr) < 2)) =>
    /\ pc = "done"
    /\ settled = "rejected"
    /\ error = ErrInvalid
    /\ profile = NoProfile
    /\ attempts = <<>>
    /\ fetchLog = <<>>
    /\ pointLog = <<>>

C3_Witness ==
  /\ pc = "done"
  /\ ~coordinates.isNull
  /\ Len(coordinates.arr) = 1
  /\ error = ErrInvalid

\* C4: a returned profile has one point per sampled coordinate and per
\* provider elevation result; a batch response with another number of
\* results than requested never yields a profile.
C4_OnePointPerSample ==
  settled = "resolved" =>
    /\ Len(profile.points) = Len(ProvidingSample)
    /\ profile.statistics.numberOfPoints = Len(ProvidingSample)
    /\ Last(attempts) = "usgs" => Len(allElevationData) = Len(sampledCoords)
    /\ Last(attempts) = "open" =>
         Len(Last(fetchLog).answer.data.results) = Len(oeSampledCoords)

\* a failure of the batch provider, as the specification lists them
BatchFailure(answer) ==
  \/ answer.fetch = "rejected"
  \/ ~answer.ok
  \/ ~answer.data.hasResults
  \/ Len(answer.data.results) = 0

\* C5: after any failure of the batch provider (transport error, non-2xx
\* status, no results array, empty results array) the call ends with the
\* all-providers-failed error and with no profile.
C5_BatchFailureIsTerminal ==
  (pc = "done" /\ OpenAnswered /\ BatchFailure(Last(fetchLog).answer)) =>
    /\ settled = "rejected"
    /\ error = (IF variant = "App" THEN ErrAllSources ELSE ErrElevation)
    /\ profile = NoProfile

\* the per-point loop of the call is over
LoopOver ==
  /\ attempts # <<>>
  /\ attempts[1] = "usgs"
  /\ \/ pc = "usgs_loop" /\ idx > Len(sampledCoords)
     \/ pc \in {"open_start", "open_fetch", "finish", "done"}

\* C6: in the per-point loop a failed point records 0 for that point only
\* and the loop goes on: iteration j handles sampled coordinate j, the
\* elevation list grows by one entry per iteration, entry j is 0 when the
\* query of point j failed and its answer's elevation otherwise, and at the
\* end of the loop the provider attempt has not failed.
C6_PointFailureIsLocal ==
  /\ pc \in {"usgs_loop", "usgs_fetch", "usgs_delay"} =>
       /\ "usgs" \notin Range(failed)
       /\ Len(allElevationData) = Len(pointLog)
       /\ Len(pointLog) = (IF pc = "usgs_delay" THEN idx ELSE idx - 1)
  /\ LoopOver => Len(allElevationData) = Len(sampledCoords)
  /\ (attempts # <<>> /\ attempts[1] = "usgs") =>
       \A j \in DOMAIN pointLog :
         /\ pointLog[j].index = j
         /\ j \in DOMAIN allElevationData
         /\ pointLog[j].fetched =>
              /\ \E q \in DOMAIN fetchLog :
                   /\ fetchLog[q].provider = "usgs"
                   /\ fetchLog[q].index = j
                   /\ fetchLog[q].coord = sampledCoords[j]
              /\ pointLog[j].resp.fetch = "rejected" => allElevationData[j] = Num(0)
              /\ pointLog[j].resp.fetch = "resolved" =>
                   IF ~pointLog[j].resp.ok THEN allElevationData[j] = Num(0)
                   ELSE IF pointLog[j].resp.data.error
                        THEN allElevationData[j] = Num(0)
                   ELSE IF pointLog[j].resp.data.value.t = "number"
                        THEN allElevationData[j] = pointLog[j].resp.data.value
                   ELSE IF pointLog[j].resp.data.value.t = "string"
                        THEN allElevationData[j].t \in {"number", "string"}
                   ELSE IF pointLog[j].resp.data.catalogItems # <<>>
                        THEN allElevationData[j]
                               = pointLog[j].resp.data.catalogItems[1]
                   ELSE allElevationData[j] = Num(0)
         /\ ~pointLog[j].fetched => allElevationData[j] = Num(0)

C6_Witness ==
  /\ pc = "finish"
  /\ Len(sampledCoords) = 3
  /\ pointLog[1].resp = UsgsJson(ValuePayload(100))
  /\ pointLog[2].resp = UsgsHttp(500)
  /\ pointLog[3].resp = UsgsJson(ValuePayload(100))
  /\ allElevationData = <<Num(100), Num(0), Num(100)>>

\* C7: the providers are attempted in the order primary, fallback; the
\* fallback only after the primary has thrown; each provider at most once;
\* each sampled point is requested at most once and the batch provider gets
\* at most one request.
C7_FixedOrderNoRetry ==
  /\ attempts \in (IF variant = "App"
                   THEN {<<>>, <<"usgs">>, <<"usgs", "open">>}
                   ELSE {<<>>, <<"open">>})
  /\ (variant = "App" /\ Len(attempts) = 2) => (failed # <<>> /\ failed[1] = "usgs")
  /\ \A a, b \in DOMAIN fetchLog :
       (a # b /\ fetchLog[a].provider = "usgs" /\ fetchLog[b].provider = "usgs")
         => fetchLog[a].index # fetchLog[b].index
  /\ Cardinality({a \in DOMAIN fetchLog :
                    fetchLog[a].provider = "open"
                      /\ "locations" \in DOMAIN fetchLog[a]}) <= 1
  /\ \A a \in DOMAIN fetchLog :
       fetchLog[a].provider = "open" =>
         \A b \in a..Len(fetchLog) : fetchLog[b].provider = "open"

C7_Witness ==
  /\ pc = "done"
  /\ attempts = <<"usgs", "open">>
  /\ failed = <<"usgs", "open">>
  /\ \E a \in DOMAIN fetchLog : fetchLog[a].provider = "usgs"

\* the number of multiples of stride among the indexes 0 .. n-1
Multiples(n, stride) == IF n = 0 THEN 0 ELSE (n - 1) \div stride + 1

\* C8: each sampler keeps exactly the coordinates at the indexes that are
\* multiples of stride = max(1, floor(n / 50)), in their order (index 0
\* first, nothing added, repeated or moved), and both providers get the
\* same sampled sequence.
C8_SamplerKeepsMultiplesOfStride ==
  pc = "sampled" =>
    LET arr == coordinates.arr
        n == Len(arr)
        stride == IF n \div 50 >= 1 THEN n \div 50 ELSE 1
        expected == [k \in 1..Multiples(n, stride) |-> arr[(k - 1) * stride + 1]]
    IN /\ sampledCoords = expected
       /\ oeSampledCoords = expected
       /\ n > 0 => sampledCoords[1] = arr[1]

C8_Witness ==
  /\ pc = "sampled"
  /\ Len(coordinates.arr) = 149
  /\ Len(sampledCoords) = 75
  /\ sampledCoords[2] = coordinates.arr[3]
  /\ oeSampledCoords = sampledCoords

\* C9: for a path of n >= 1 coordinates the sampled sequence has
\* ceil(n / stride) elements, stride = max(1, floor(n / 50)); 60 coordinates
\* give 60 sampled points and 500 coordinates give 50.
C9_SampledLength ==
  (pc \in {"sample_oe", "sampled"} /\ Len(coordinates.arr) >= 1) =>
    LET n == Len(coordinates.arr)
        stride == IF n \div 50 >= 1 THEN n \div 50 ELSE 1
    IN /\ Len(sampledCoords) = (n + stride - 1) \div stride
       /\ n = 60 => Len(sampledCoords) = 60
       /\ n = 500 => Len(sampledCoords) = 50

C9_Witness ==
  /\ pc = "sampled"
  /\ Len(coordinates.arr) = 500
  /\ Len(sampledCoords) = 50

\* C10: the last coordinate of the path is among the sampled coordinates
\* exactly when n - 1 is a multiple of the stride; when it is not, the last
\* point of the returned profile is an earlier coordinate of the path and
\* totalDistanceMeters is the distance from the first coordinate to that
\* earlier coordinate only.
C10_LastCoordinate ==
  settled = "resolved" =>
    LET arr == coordinates.arr
        n == Len(arr)
        stride == IF n \div 50 >= 1 THEN n \div 50 ELSE 1
        lastPoint == Last(profile.points)
    IN /\ (Last(arr) \in Range(ProvidingSample)) <=> ((n - 1) % stride = 0)
       /\ (n - 1) % stride # 0 =>
            /\ <<lastPoint.longitude, lastPoint.latitude>> # Last(arr)
            /\ \E j \in 1..(n - 1) :
                 /\ arr[j] = <<lastPoint.longitude, lastPoint.latitude>>
                 /\ profile.statistics.totalDistanceMeters
                      = 11119 * (arr[j][2] - arr[1][2])
            /\ profile.statistics.totalDistanceMeters
                 < 11119 * (arr[n][2] - arr[1][2])

C10_Witness ==
  /\ settled = "resolved"
  /\ Len(coordinates.arr) = 100
  /\ Len(profile.points) = 50
  /\ Last(profile.points).latitude = 41098
  /\ profile.statistics.totalDistanceMeters = 11119 * 98

\* the sum of f over the indices S
RECURSIVE SumOver(_, _)
SumOver(f, S) ==
  IF S = {} THEN 0
  ELSE LET x == CHOOSE y \in S : TRUE IN f[x] + SumOver(f, S \ {x})

\* the climbs and the descents between consecutive numeric elevations
Climbs(e) == [k \in 2..Len(e) |-> Max(0, e[k].v - e[k - 1].v)]
Descents(e) == [k \in 2..Len(e) |-> Max(0, e[k - 1].v - e[k].v)]

\* C11: the elevation gain of a profile is the sum of the strictly positive
\* differences between consecutive elevations and the loss is the sum of the
\* absolute values of the negative ones, with no smoothing; both are
\* non-negative, and the elevations 100, 150, 120 give gain 50, loss 30,
\* minimum 100 and maximum 150.
C11_GainAndLoss ==
  pc = "stats_done" =>
    /\ profile.statistics.elevationGain
         = SumOver(Climbs(allElevationData), 2..Len(allElevationData))
    /\ profile.statistics.elevationLoss
         = SumOver(Descents(allElevationData), 2..Len(allElevationData))
    /\ profile.statistics.elevationGain >= 0
    /\ profile.statistics.elevationLoss >= 0
    /\ allElevationData = <<Num(100), Num(150), Num(120)>> =>
         /\ profile.statistics.elevationGain = 50
         /\ profile.statistics.elevationLoss = 30
         /\ profile.statistics.minElevation = Num(100)
         /\ profile.statistics.maxElevation = Num(150)

C11_Witness ==
  /\ pc = "stats_done"
  /\ allElevationData = <<Num(100), Num(150), Num(120)>>
  /\ profile.statistics.elevationGain = 50
  /\ profile.statistics.elevationLoss = 30

\* the answer recorded for iteration j of the per-point loop is a payload
Parsed(j) ==
  /\ pointLog[j].fetched
  /\ pointLog[j].resp.fetch = "resolved"
  /\ pointLog[j].resp.ok
  /\ ~pointLog[j].resp.data.error

\* C16: a successful answer of the primary provider is read in this order:
\* a numeric value is the elevation; otherwise the Pixel_Value of the first
\* catalog feature; otherwise, when the name is "Pixel" and the value is a
\* string, the first space-delimited token parsed as a number; otherwise 0.
\* A "Pixel" answer with a string value never yields the raw string.
C16_ParsePrecedence ==
  \A j \in 1..Len(pointLog) :
    (j <= Len(allElevationData) /\ Parsed(j)) =>
      LET data == pointLog[j].resp.data IN
        /\ allElevationData[j]
             = (IF data.value.t = "number" THEN data.value
                ELSE IF data.catalogItems # <<>> THEN data.catalogItems[1]
                ELSE IF data.name = "Pixel" /\ data.value.t = "string"
                     THEN Num(data.value.tokens[1])
                ELSE Num(0))
        /\ (data.name = "Pixel" /\ data.value.t = "string")
             => allElevationData[j].t = "number"

\* C12: for every returned profile, of any length from 1 up, the elevation
\* gain minus the elevation loss equals the last elevation minus the first.
C12_GainMinusLoss ==
  settled = "resolved" =>
    Diff(Last(profile.points).elevation, profile.points[1].elevation)
      = Num(profile.statistics.elevationGain - profile.statistics.elevationLoss)

\* C13: for every returned profile the minimum and the maximum elevation
\* bound the elevation of every point, both are the elevation of some point,
\* and numberOfPoints is the number of points.
C13_ExtremaAndCount ==
  settled = "resolved" =>
    LET st == profile.statistics IN
      /\ st.minElevation.t = "number"
      /\ st.maxElevation.t = "number"
      /\ \A k \in DOMAIN profile.points :
           /\ ToNumber(profile.points[k].elevation).t = "number"
           /\ st.minElevation.v <= ToNumber(profile.points[k].elevation).v
           /\ ToNumber(profile.points[k].elevation).v <= st.maxElevation.v
      /\ \E k \in DOMAIN profile.points :
           profile.points[k].elevation = st.minElevation
      /\ \E k \in DOMAIN profile.points :
           profile.points[k].elevation = st.maxElevation
      /\ st.numberOfPoints = Len(profile.points)

\* C14: the cumulative distances of a returned profile, computed over the
\* sampled coordinates, are as many as the sampled coordinates, start at 0,
\* grow at each point by the distance of the segment that leads to it, and
\* never decrease.
C14_CumulativeDistances ==
  settled = "resolved" =>
    LET pts == profile.points
        sc == ProvidingSample
    IN /\ Len(sc) > 0
       /\ Len(pts) <= Len(sc)
       /\ Last(attempts) = "usgs" => Len(pts) = Len(sc)
       /\ pts[1].distance = 0
       /\ \A k \in 2..Len(pts) :
            /\ pts[k].distance
                 = pts[k - 1].distance + haversineDistance(sc[k - 1], sc[k])
            /\ pts[k].distance >= pts[k - 1].distance

C14_Witness ==
  /\ settled = "resolved"
  /\ Len(profile.points) >= 3
  /\ profile.points[2].distance > 0
  /\ profile.points[3].distance > profile.points[2].distance

\* C15: any two consecutive point queries of the per-point loop are
\* separated by the fixed 100 ms delay, whether the earlier one succeeded or
\* failed.
C15_DelayBetweenQueries ==
  \A a \in DOMAIN fetchLog : \A b \in DOMAIN fetchLog :
    (/\ b = a + 1
     /\ fetchLog[a].provider = "usgs"
     /\ fetchLog[b].provider = "usgs")
      => \E d \in DOMAIN delayLog : delayLog[d] = fetchLog[a].index

\* C17: when the all-providers-failed error is raised it carries the last
\* underlying provider failure, the error of the fallback, for the caller to
\* inspect.
C17_ErrorCarriesLastFailure ==
  (settled = "rejected" /\ error \in {ErrAllSources, ErrElevation}) =>
    /\ caughtError # NoCause
    /\ errorCause = caughtError

\* the handler of click c has run to its end
Settled(c) == clicks[c].pc = "done"

\* C18: when two stream clicks overlap, the result of the earlier one is
\* discarded: once both have settled, the elevationProfile and the
\* selectedStreamFeature displayed are those of the click started last,
\* in whichever order the two computations complete.
C18_LatestClickWins ==
  \A a \in 1..MaxClicks : \A b \in 1..MaxClicks :
    (/\ a < b
     /\ nextClick = b + 1
     /\ Settled(a) /\ clicks[a].outcome = "resolved"
     /\ Settled(b) /\ clicks[b].outcome = "resolved")
      => /\ ~elevationProfile.isNull => elevationProfile.call = b
         /\ ~selectedStreamFeature.isNull => selectedStreamFeature.id = b

\* C19: when the profile computation of a click ends in a terminal failure,
\* the handler sets the generic message that prompts a retry and does not
\* set elevationProfile; the chart component renders nothing for a profile
\* that is null or has no points.
C19_FailureShowsRetryMessage ==
  /\ [](/\ ElevationChart(JsNull) = "null"
        /\ ElevationChart([isNull |-> FALSE, call |-> 0,
                           value |-> [points |-> <<>>]]) = "null"
        /\ elevationProfile.isNull => RenderedChart = "null")
  /\ [][\A c \in 1..MaxClicks :
          (clicks[c].pc = "profile" /\ clicks'[c].outcome = "rejected")
            => /\ uiError' = Message(ErrRetry)
               /\ elevationProfile' = elevationProfile]_vars

C19_Witness ==
  /\ \E c \in 1..MaxClicks : clicks[c].outcome = "rejected"
  /\ uiError = Message(ErrRetry)
  /\ elevationProfile.isNull
  /\ RenderedChart = "null"

\* C20: after a deselect (the clear button, or a click on the map away from
\* every stream) the selection stays cleared until a stream is clicked
\* again: a computation in flight at the time of the deselect does not set
\* elevationProfile, selectedStreamFeature or the highlight afterwards.
C20_ClearedStaysCleared ==
  [][(cleared /\ cleared')
       => /\ elevationProfile'.isNull
          /\ selectedStreamFeature'.isNull
          /\ highlighted' = highlighted]_vars

\* C21: whenever the selection has been cleared (elevationProfile and
\* selectedStreamFeature are null after clearSelection) the map has no
\* "highlighted-stream" source or layer, after the clear button and after a
\* click on the background alike.
C21_ClearRemovesHighlight ==
  (cleared /\ elevationProfile.isNull /\ selectedStreamFeature.isNull)
    => highlighted.isNull

\* C22: loading is true whenever the computation of at least one click is
\* in flight and false once none is; the completion of an earlier click
\* does not turn loading off while a later click is still computed.
C22_LoadingWhileInFlight ==
  loading <=> (\E c \in 1..MaxClicks : InFlight(c))

\* C24: for every path of n >= 1 coordinates the number of sampled
\* coordinates, of either provider, is at most 2 * 50 - 1 = 99 and at most
\* 50 + ceil(49 / stride), stride = max(1, floor(n / 50)).
C24_SampledLengthBounded ==
  (pc = "sampled" /\ Len(coordinates.arr) >= 1) =>
    LET n == Len(coordinates.arr)
        stride == IF n \div 50 >= 1 THEN n \div 50 ELSE 1
    IN /\ Len(sampledCoords) <= 99
       /\ Len(oeSampledCoords) <= 99
       /\ Len(sampledCoords) <= 50 + (49 + stride - 1) \div stride
       /\ Len(oeSampledCoords) <= 50 + (49 + stride - 1) \div stride

C24_Witness ==
  /\ pc = "sampled"
  /\ Len(coordinates.arr) = 99
  /\ Len(sampledCoords) = 99
  /\ Len(oeSampledCoords) = 99

\* the requests of the current call to the primary provider, and its
\* requests to the fallback
PrimaryQueries == {k \in DOMAIN fetchLog : fetchLog[k].provider = "usgs"}
FallbackRequests ==
  {k \in DOMAIN fetchLog :
     fetchLog[k].provider = "open" /\ "locations" \in DOMAIN fetchLog[k]}

\* C23: provided every provider request settles and every pacing timer
\* fires, each getElevationProfile call settles with a profile or an error,
\* having issued at most one primary query per sampled coordinate and at
\* most one fallback request, and the click handler that started it sets
\* loading back to false.
C23_CallAndHandlerTerminate ==
  /\ [](/\ \A j \in PrimaryQueries : \A k \in PrimaryQueries :
             fetchLog[j].index = fetchLog[k].index => j = k
        /\ \A k \in PrimaryQueries : fetchLog[k].index \in 1..Len(sampledCoords)
        /\ Cardinality(FallbackRequests) <= 1)
  /\ (pc \notin {"idle", "done"})
       ~> (pc = "done" /\ settled \in {"resolved", "rejected"})
  /\ \A c \in 1..MaxClicks :
       InFlight(c) ~> (clicks[c].pc = "done" /\ ~loading)

C23_Witness ==
  /\ \E c \in 1..MaxClicks : clicks[c].pc = "done" /\ clicks[c].outcome = "resolved"
  /\ pc = "done"
  /\ settled = "resolved"
  /\ Len(sampledCoords) = 2
  /\ Cardinality(PrimaryQueries) = 2
  /\ ~loading

====
